---- MODULE Spec2Model ----
(***************************************************************************)
(* State-machine model of the nexify social backend: the application      *)
(* services for posts, comments, likes, reports and the follow workflow.  *)
(* Tables are modelled as the rows they hold; every service call is one    *)
(* action that runs the whole handler, including its transaction.          *)
(***************************************************************************)
EXTENDS Bags, FiniteSets, Integers, Sequences, TLC

\* ---------------------------------------------------------------- bounds
\* Number of user ids ever handed out by UserID() (uuid4, never reused).
MaxUsers == 3
\* Number of post ids ever handed out by PostID(uuid4()).
MaxPosts == 1
\* Number of comment ids ever handed out by PostCommentID(uuid4()).
MaxComments == 2
\* Number of UserFollow rows the table may hold at once.
MaxFollows == 2
\* Length of the remembered run of consecutive identical calls.
HistLen == 3
\* Number of users that act in the specifications of the post lookup and of
\* the administrator's deletion.
MaxActors == 1
\* Number of comment, like and report rows those specifications let exist at
\* once.
MaxChildRows == 1

\* Number of users whose recommendations are followed.
MaxJobUsers == 2
\* Number of runs of the recommendation job that may overlap.
MaxJobs == 2
\* settings.RECOMMEND_POST_SIZE, the configured size of a recommendation set.
RECOMMEND_POST_SIZE == 1

UserIds == 1..MaxUsers
\* The addresses a sign-up or a profile update can carry.
Emails == 1..MaxUsers
\* A form without an email.
NoEmail == 0
\* The names an uploaded file can have, split at the dots; NoFile is a
\* request without a file.
FileNames == {<<"photo", "png">>, <<"photo", "exe">>, <<"notes">>}
NoFile == <<>>
\* settings.ALLOWED_FILE_EXTENSIONS
ALLOWED_FILE_EXTENSIONS == {"png"}
\* link = None
None == <<>>
\* The users the recommendation job is followed for.
JobActors == 1..MaxJobUsers
\* The worker slots that run the recommendation job.
JobIds == 1..MaxJobs
\* The users that act in the post lookup and administrator specifications.
Actors == 1..MaxActors
PostIds == 1..MaxPosts
CommentIds == 1..MaxComments
\* Texts a caller may submit as a post description.
Descriptions == {"d1", "d2"}
\* The spellings in which the text of a UUID reaches a service: the lower-case
\* hyphenated form that str() prints, and any other form that the id lookups
\* parse to the same UUID (upper-case digits, no hyphens, braces).
Spellings == {"lower", "other"}
\* The id texts a caller may put in the URL of a user.
UserIdStrings == [uuid : UserIds, spelling : Spellings]

VARIABLES
    users,          \* ids of the rows of table "user" (all active)
    nextUserId,     \* next fresh user id
    posts,          \* table "post": id -> row
    nextPostId,     \* next fresh post id
    comments,       \* table "post_comment": id -> row
    nextCommentId,  \* next fresh comment id
    postLikes,      \* table "post_like": bag of [post, user] rows
    reportedPosts,  \* table "reported_post": bag of [post, user] rows
    userFollows,    \* table "user_follow": bag of [follower, following, is_accepted]
    staff,          \* ids of the users with is_staff set
    superusers,     \* ids of the users with is_superuser set
    postRecommendations, \* table "post_recommendation": id -> [user, recommend_posts]
    nextRecId,      \* next fresh recommendation id
    outbox,         \* the mails handed to the mail backend, in order
    jobs,           \* the runs of the recommendation job that are in progress
    files,          \* table "file": set of [uploader, url] rows
    storage,        \* the paths saved in the media storage, in order
    emails,         \* column "email" of table "user": id -> address
    requests,       \* the requests that have read and not yet written
    calls           \* the current run of consecutive identical calls, with
                    \* each call's outcome and what it observed before/after

vars == <<users, nextUserId, posts, nextPostId, comments, nextCommentId,
          postLikes, reportedPosts, userFollows, staff, superusers,
          postRecommendations, nextRecId, outbox, jobs, files, storage,
          emails, requests, calls>>

\* The tables, without the call history.
store == <<users, nextUserId, posts, nextPostId, comments, nextCommentId,
           postLikes, reportedPosts, userFollows, staff, superusers,
           postRecommendations, nextRecId, files, emails>>

userVars == <<users, nextUserId, staff, superusers>>
postVars == <<posts, nextPostId>>
commentVars == <<comments, nextCommentId>>
recVars == <<postRecommendations, nextRecId>>
fileVars == <<files, storage>>

\* ------------------------------------------------------------- row helpers
\* str(user.id): a UUID prints in the lower-case hyphenated form.
str(id) == [uuid |-> id, spelling |-> "lower"]

\* The UUID that a lookup .filter(id=text) compares with the column: the text
\* is parsed, whatever its spelling.
to_python(id_string) == id_string.uuid

\* A PostLike / ReportedPost row.
PostUserRow(post_id, user) == [post |-> post_id, user |-> user]

\* A UserFollow row.
FollowRow(follower, following, is_accepted) ==
    [follower |-> follower, following |-> following, is_accepted |-> is_accepted]

\* A freshly built Post: counters and flags take the field defaults.
NewPost(user, description, link) ==
    [user |-> user, description |-> description, link |-> link,
     likes_count |-> 0, comments_count |-> 0, is_reported |-> FALSE,
     report_count |-> 0, is_active |-> TRUE]

\* The sub-bag of bag b that holds the rows in S: a filtered queryset.
Filter(b, S) == [r \in S \cap BagToSet(b) |-> b[r]]

\* Number of rows of a [post, user] table that reference a post.
RowsOfPost(b, post_id) ==
    BagCardinality(Filter(b, {r \in BagToSet(b) : r.post = post_id}))

\* Number of comment rows that reference a post.
CommentsOfPost(post_id) ==
    Cardinality({c \in DOMAIN comments : comments[c].post = post_id})

\* list_posts(): the active posts.
list_posts == {p \in DOMAIN posts : posts[p].is_active}

\* list_users(): the active users.
list_users == users

\* ------------------------------------------------------------ call history
\* Record one call: it extends the run when it repeats the previous call's
\* operation and arguments, and starts a new run otherwise.  A call that
\* repeats the previous record exactly (same outcome, nothing changed) is not
\* recorded a second time.
Log(op, user, target, result, before, after) ==
    LET c == [op |-> op, user |-> user, target |-> target, result |-> result,
              before |-> before, after |-> after]
        same == /\ calls # <<>>
                /\ calls[Len(calls)].op = op
                /\ calls[Len(calls)].user = user
                /\ calls[Len(calls)].target = target
        run == IF same /\ calls[Len(calls)] = c
               THEN calls
               ELSE Append(IF same THEN calls ELSE <<>>, c)
    IN calls' = IF Len(run) > HistLen THEN Tail(run) ELSE run

\* ------------------------------------------------------------------- init
Init ==
    /\ users = {}
    /\ nextUserId = 1
    /\ posts = <<>>
    /\ nextPostId = 1
    /\ comments = <<>>
    /\ nextCommentId = 1
    /\ postLikes = EmptyBag
    /\ reportedPosts = EmptyBag
    /\ userFollows = EmptyBag
    /\ staff = {}
    /\ superusers = {}
    /\ postRecommendations = <<>>
    /\ nextRecId = 1
    /\ outbox = <<>>
    /\ jobs = <<>>
    /\ files = {}
    /\ storage = <<>>
    /\ emails = <<>>
    /\ requests = <<>>
    /\ calls = <<>>

\* ------------------------------------------------------------------ users
\* Mutant of EmailInUse: the caller's form is never refused.
EmailNeverInUse(email) == FALSE

\* The check of both user forms: an active user has the address.
EmailInUse(email) == \E u \in list_users : emails[u] = email

\* create_user_from_dict(data) with data["email"] = email and a valid
\* password: a new active user with a fresh id, unless an active user has the
\* address.
CreateUserFromDict(email) ==
    /\ nextUserId <= MaxUsers
    /\ IF EmailInUse(email)
       THEN /\ UNCHANGED <<users, nextUserId, emails>>
            /\ Log("create_user_from_dict", nextUserId, email,
                   "UserAlreadyExistsException",
                   Cardinality(users), Cardinality(users))
       ELSE /\ users' = users \cup {nextUserId}
            /\ nextUserId' = nextUserId + 1
            /\ emails' = (nextUserId :> email) @@ emails
            /\ Log("create_user_from_dict", nextUserId, email, "created",
                   Cardinality(users), Cardinality(users'))
    /\ UNCHANGED <<staff, superusers>>
    /\ UNCHANGED <<postVars, commentVars, postLikes, reportedPosts, userFollows,
                   recVars, outbox, jobs, fileVars, requests>>

\* create_user_from_dict when the caller signs up with an address of their
\* own: the address numbered like the new user.
CreateUser == CreateUserFromDict(nextUserId)

\* update_user_from_dict(user_obj, data) with data["email"] = email, or with
\* no email when email is NoEmail.
UpdateUserFromDict(user, email) ==
    /\ user \in users
    /\ IF email # NoEmail /\ EmailInUse(email)
       THEN /\ UNCHANGED emails
            /\ Log("update_user_from_dict", user, email,
                   "UserAlreadyExistsException", emails[user], emails[user])
       ELSE /\ emails' = IF email # NoEmail
                         THEN [emails EXCEPT ![user] = email]
                         ELSE emails
            /\ Log("update_user_from_dict", user, email, "updated",
                   emails[user], emails'[user])
    /\ UNCHANGED <<userVars, postVars, commentVars, postLikes, reportedPosts,
                   userFollows, recVars, outbox, jobs, fileVars, requests>>

\* A user built with is_staff set: by UserFactory with
\* UserBasePermissions(is_staff=True), which leaves is_superuser at its
\* default, or by create_superuser, which sets both flags.
CreateStaffUser(is_superuser) ==
    /\ nextUserId <= MaxUsers
    /\ users' = users \cup {nextUserId}
    /\ nextUserId' = nextUserId + 1
    /\ staff' = staff \cup {nextUserId}
    /\ superusers' = IF is_superuser THEN superusers \cup {nextUserId}
                     ELSE superusers
    /\ emails' = (nextUserId :> nextUserId) @@ emails
    /\ UNCHANGED <<postVars, commentVars, postLikes, reportedPosts, userFollows,
                   recVars, outbox, jobs, fileVars, requests>>
    /\ Log("create_staff_user", nextUserId, is_superuser, "created",
           Cardinality(users), Cardinality(users'))

\* delete_user: user_obj.delete() in one transaction.  Every foreign key to
\* User and to Post is declared on_delete=CASCADE, so the user's posts, the
\* rows that reference them, and the user's own comments, likes, reports,
\* follows and recommendation records go with the user.  The cascade deletes
\* rows in bulk; no counter of a remaining post is written.
AccountView(user) ==
    [exists |-> user \in users,
     rows |-> Cardinality({p \in DOMAIN posts : posts[p].user = user})
              + Cardinality({c \in DOMAIN comments : comments[c].user = user})
              + BagCardinality(Filter(postLikes,
                    {r \in BagToSet(postLikes) : r.user = user}))
              + BagCardinality(Filter(reportedPosts,
                    {r \in BagToSet(reportedPosts) : r.user = user}))
              + BagCardinality(Filter(userFollows,
                    {r \in BagToSet(userFollows) :
                        r.follower = user \/ r.following = user}))
              + Cardinality({r \in DOMAIN postRecommendations :
                    postRecommendations[r].user = user})]

DeleteUser(user) ==
    LET deleted_posts == {p \in DOMAIN posts : posts[p].user = user} IN
    /\ user \in users
    /\ users' = users \ {user}
    /\ staff' = staff \ {user}
    /\ superusers' = superusers \ {user}
    /\ posts' = [p \in DOMAIN posts \ deleted_posts |-> posts[p]]
    /\ comments' = [c \in {x \in DOMAIN comments :
                               /\ comments[x].user # user
                               /\ comments[x].post \notin deleted_posts}
                     |-> comments[c]]
    /\ postLikes' = Filter(postLikes, {r \in BagToSet(postLikes) :
                               r.user # user /\ r.post \notin deleted_posts})
    /\ reportedPosts' = Filter(reportedPosts, {r \in BagToSet(reportedPosts) :
                               r.user # user /\ r.post \notin deleted_posts})
    /\ userFollows' = Filter(userFollows, {r \in BagToSet(userFollows) :
                               r.follower # user /\ r.following # user})
    /\ postRecommendations' =
          [r \in {x \in DOMAIN postRecommendations :
                      postRecommendations[x].user # user} |->
              [postRecommendations[r] EXCEPT
                  !.recommend_posts = @ \ deleted_posts]]
    /\ emails' = [u \in users \ {user} |-> emails[u]]
    /\ files' = {f \in files : f.uploader # user}
    /\ UNCHANGED <<nextUserId, nextPostId, nextCommentId, nextRecId, outbox, jobs,
                   storage, requests>>
    /\ Log("delete_user", user, user, "True",
           AccountView(user), AccountView(user)')

\* ------------------------------------------------------------------ posts
\* file_obj.name.split(".")[-1]
file_extension(file_name) == file_name[Len(file_name)]

\* Mutant of ExtensionAllowed: every file passes.
AnyExtensionAllowed(file_obj) == TRUE

\* The allow-list test of create_post_from_dict.
ExtensionAllowed(file_obj) ==
    file_extension(file_obj) \in ALLOWED_FILE_EXTENSIONS

\* file_path_within_bucket: the user's folder, a random prefix and the name.
\* The prefix is fresh; here it is the number of the save.
FilePath(user, file_obj) ==
    <<user, Len(storage) + 1, file_obj>>

\* media_storage.url(path): the URL under which the saved path is served.
MediaUrl(file_path_within_bucket) == <<"media", file_path_within_bucket>>

\* create_post_from_dict(user, data, file_obj).  The insert violates the
\* foreign key when the user row is gone (followed for requests without a
\* file only, so that the saves stay bounded).  A file is checked against the
\* allow-list, saved in the storage and recorded in a File row, whose url
\* becomes the post's link.
CreatePostFromDict(user, description, file_obj) ==
    LET call == [description |-> description, file |-> file_obj]
        link == IF file_obj # NoFile
                THEN MediaUrl(FilePath(user, file_obj)) ELSE None
    IN
    /\ \/ nextPostId <= MaxPosts
       \/ file_obj # NoFile /\ ~ExtensionAllowed(file_obj)
    /\ file_obj = NoFile \/ user \in users
    /\ IF file_obj # NoFile /\ ~ExtensionAllowed(file_obj)
       THEN /\ UNCHANGED <<postVars, fileVars>>
            /\ Log("create_post_from_dict", user, call,
                   "FileExtensionNotAllowedException",
                   Cardinality(DOMAIN posts), Cardinality(DOMAIN posts))
       ELSE IF user \notin users
       THEN /\ UNCHANGED <<postVars, fileVars>>
            /\ Log("create_post_from_dict", user, call, "IntegrityError",
                   Cardinality(DOMAIN posts), Cardinality(DOMAIN posts))
       ELSE /\ posts' = (nextPostId :> NewPost(user, description, link)) @@ posts
            /\ nextPostId' = nextPostId + 1
            /\ storage' = IF file_obj # NoFile
                          THEN Append(storage, FilePath(user, file_obj))
                          ELSE storage
            /\ files' = IF file_obj # NoFile
                        THEN files \cup {[uploader |-> user, url |-> link]}
                        ELSE files
            /\ Log("create_post_from_dict", user, call, "created",
                   Cardinality(DOMAIN posts), Cardinality(DOMAIN posts'))
    /\ UNCHANGED <<userVars, commentVars, postLikes, reportedPosts, userFollows,
                   recVars, outbox, jobs, emails, requests>>

\* create_post_from_dict without a file.
CreatePost(user, description) == CreatePostFromDict(user, description, NoFile)

\* ------------------------------------------------------------------ likes
\* What a like toggle by user on post_id can see: the post's counter (-1 when
\* the post is not listed) and the number of like rows of the pair.
LikeView(user, post_id) ==
    [likes_count |-> IF post_id \in list_posts THEN posts[post_id].likes_count ELSE -1,
     likes |-> CopiesIn(PostUserRow(post_id, user), postLikes)]

\* Mutant of ExistingLikes: the existing like is not looked up.
NoExistingLikes(user, post_id) == EmptyBag

\* exist_post_like_obj: the like rows of (post_id, user).
ExistingLikes(user, post_id) ==
    Filter(postLikes, {r \in BagToSet(postLikes) :
                          r.post = post_id /\ r.user = user})

\* Mutant of LikedPost: the incremented counter is never written.
LikedPostUnsaved(post) == post

\* post_obj.likes_count += 1
LikedPost(post) == [post EXCEPT !.likes_count = @ + 1]

\* post_obj.likes_count -= 1
UnlikedPost(post) == [post EXCEPT !.likes_count = @ - 1]

\* Mutant of LikeActionMessage: the label does not depend on the branch.
LikeActionMessageLiked(existed) == "liked"

\* action_message of the toggle.
LikeActionMessage(existed) == IF existed THEN "unliked" ELSE "liked"

\* like_or_unlike_post
LikeOrUnlikePost(user, post_id) ==
    LET before == LikeView(user, post_id)
        Failed(exception) ==
            /\ UNCHANGED <<posts, postLikes>>
            /\ Log("like_or_unlike_post", user, post_id, exception, before, before)
        Done(message) ==
            Log("like_or_unlike_post", user, post_id, message, before,
                LikeView(user, post_id)')
    IN
    /\ IF post_id \notin list_posts
       THEN Failed("PostNotFoundException")
       ELSE IF ExistingLikes(user, post_id) # EmptyBag
       THEN IF UnlikedPost(posts[post_id]).likes_count < 0
            THEN \* PositiveIntegerField: the CHECK constraint rejects the save
                 Failed("IntegrityError")
            ELSE /\ \E like \in BagToSet(ExistingLikes(user, post_id)) :
                        postLikes' = postLikes (-) SetToBag({like})
                 /\ posts' = [posts EXCEPT ![post_id] = UnlikedPost(@)]
                 /\ Done(LikeActionMessage(TRUE))
       ELSE IF user \notin users
       THEN \* the new row's foreign key has no user row
            Failed("IntegrityError")
       ELSE /\ postLikes' = postLikes (+) SetToBag({PostUserRow(post_id, user)})
            /\ posts' = [posts EXCEPT ![post_id] = LikedPost(@)]
            /\ Done(LikeActionMessage(FALSE))
    /\ UNCHANGED <<userVars, nextPostId, commentVars, reportedPosts, userFollows,
                   recVars, outbox, jobs,
                   fileVars, emails, requests>>

\* ---------------------------------------------------------------- reports
\* What a report by user on post_id can see.
ReportView(user, post_id) ==
    [report_count |-> IF post_id \in list_posts THEN posts[post_id].report_count ELSE -1,
     reports |-> CopiesIn(PostUserRow(post_id, user), reportedPosts)]

\* Mutant of AlreadyReported: the existing report is not looked up.
NeverReported(user, post_id) == FALSE

\* exist_reported_post_obj
AlreadyReported(user, post_id) ==
    CopiesIn(PostUserRow(post_id, user), reportedPosts) > 0

\* post_obj.is_reported = True; post_obj.report_count += 1
ReportedPost(post) ==
    [post EXCEPT !.is_reported = TRUE, !.report_count = @ + 1]

\* post_reporting
PostReporting(user, post_id) ==
    LET before == ReportView(user, post_id)
        Failed(exception) ==
            /\ UNCHANGED <<posts, reportedPosts>>
            /\ Log("post_reporting", user, post_id, exception, before, before)
    IN
    /\ IF post_id \notin list_posts
       THEN Failed("PostNotFoundException")
       ELSE IF AlreadyReported(user, post_id)
       THEN Failed("PostAlreadyReportedException")
       ELSE IF user \notin users
       THEN Failed("IntegrityError")
       ELSE /\ reportedPosts' =
                   reportedPosts (+) SetToBag({PostUserRow(post_id, user)})
            /\ posts' = [posts EXCEPT ![post_id] = ReportedPost(@)]
            /\ Log("post_reporting", user, post_id, "reported", before,
                   ReportView(user, post_id)')
    /\ UNCHANGED <<userVars, nextPostId, commentVars, postLikes, userFollows,
                   recVars, outbox, jobs,
                   fileVars, emails, requests>>

\* --------------------------------------------------------------- comments
\* What a comment operation on post_id can see.
CommentView(post_id) ==
    [comments_count |-> IF post_id \in list_posts
                        THEN posts[post_id].comments_count ELSE -1,
     comments |-> CommentsOfPost(post_id)]

\* post_obj.comments_count += 1
CommentedPost(post) == [post EXCEPT !.comments_count = @ + 1]

\* Mutant of UncommentedPost: the decremented counter is never written.
UncommentedPostUnsaved(post) == post

\* post_obj.comments_count -= 1
UncommentedPost(post) == [post EXCEPT !.comments_count = @ - 1]

\* create_post_comment
CreatePostComment(user, post_id) ==
    LET before == CommentView(post_id)
        Failed(exception) ==
            /\ UNCHANGED <<posts, commentVars>>
            /\ Log("create_post_comment", user, post_id, exception, before, before)
    IN
    /\ nextCommentId <= MaxComments
    /\ IF post_id \notin list_posts
       THEN Failed("PostNotFoundException")
       ELSE IF user \notin users
       THEN Failed("IntegrityError")
       ELSE /\ comments' =
                   (nextCommentId :> [post |-> post_id, user |-> user]) @@ comments
            /\ nextCommentId' = nextCommentId + 1
            /\ posts' = [posts EXCEPT ![post_id] = CommentedPost(@)]
            /\ Log("create_post_comment", user, post_id, "created", before,
                   CommentView(post_id)')
    /\ UNCHANGED <<userVars, nextPostId, postLikes, reportedPosts, userFollows,
                   recVars, outbox, jobs,
                   fileVars, emails, requests>>

\* Mutant of IsCommentAuthor: the owner of the post may delete as well.
IsCommentAuthorOrPostOwner(comment, user) ==
    \/ str(comment.user) = str(user)
    \/ (comment.post \in DOMAIN posts /\ str(posts[comment.post].user) = str(user))

\* The caller is the comment's author.
IsCommentAuthor(comment, user) == str(comment.user) = str(user)

\* delete_comment.  Failures inside the transaction are returned, not raised.
DeleteComment(post_comment_id, user) ==
    LET post_id == IF post_comment_id \in DOMAIN comments
                   THEN comments[post_comment_id].post ELSE 0
        before == CommentView(post_id)
        Failed(outcome) ==
            /\ UNCHANGED <<posts, comments>>
            /\ Log("delete_comment", user, post_comment_id, outcome, before, before)
    IN
    /\ IF post_comment_id \notin DOMAIN comments
       THEN Failed("PostCommentNotFoundException")
       ELSE IF ~IsCommentAuthor(comments[post_comment_id], user)
       THEN Failed("UnauthorizedPostCommentAccess")
       ELSE IF post_id \notin list_posts
       THEN Failed("returned PostNotFoundException")
       ELSE IF UncommentedPost(posts[post_id]).comments_count < 0
       THEN Failed("returned IntegrityError")
       ELSE /\ posts' = [posts EXCEPT ![post_id] = UncommentedPost(@)]
            /\ comments' = [c \in DOMAIN comments \ {post_comment_id} |-> comments[c]]
            /\ Log("delete_comment", user, post_comment_id, "True", before,
                   CommentView(post_id)')
    /\ UNCHANGED <<userVars, nextPostId, nextCommentId, postLikes, reportedPosts,
                   userFollows,
                   recVars, outbox, jobs,
                   fileVars, emails, requests>>

\* ---------------------------------------------------------- update, delete
\* What an update or delete of post_id can see.
PostView(post_id) ==
    [exists |-> post_id \in DOMAIN posts,
     description |-> IF post_id \in DOMAIN posts
                     THEN posts[post_id].description ELSE "none"]

\* Mutant of HasPostAccess: the owner comparison is dropped.
EveryoneHasPostAccess(post, user) == TRUE

\* check_post_access passes: the caller is the post's owner.
HasPostAccess(post, user) == str(post.user) = str(user)

\* update_post_from_dict
UpdatePost(post_id, user, description) ==
    LET before == PostView(post_id) IN
    /\ IF post_id \notin list_posts
       THEN /\ UNCHANGED posts
            /\ Log("update_post_from_dict", user, post_id, "PostNotFoundException",
                   before, before)
       ELSE IF ~HasPostAccess(posts[post_id], user)
       THEN /\ UNCHANGED posts
            /\ Log("update_post_from_dict", user, post_id, "UnauthorizedPostAccess",
                   before, before)
       ELSE /\ posts' = [posts EXCEPT ![post_id].description = description]
            /\ Log("update_post_from_dict", user, post_id, "updated", before,
                   PostView(post_id)')
    /\ UNCHANGED <<userVars, nextPostId, commentVars, postLikes, reportedPosts,
                   userFollows,
                   recVars, outbox, jobs,
                   fileVars, emails, requests>>

\* The rows of a [post, user] table left after a post's cascade.
\* Mutant of WithoutPost: the rows that reference the post are kept.
WithPost(b, post_id) == b

WithoutPost(b, post_id) ==
    Filter(b, {r \in BagToSet(b) : r.post # post_id})

\* The recommendation sets left after a post's cascade through the
\* many-to-many table.
NotRecommended(post_id) ==
    [r \in DOMAIN postRecommendations |->
        [postRecommendations[r] EXCEPT !.recommend_posts = @ \ {post_id}]]

\* delete_post: the hard delete cascades to comments, likes, reports and the
\* rows of the recommendation sets.
DeletePost(post_id, user) ==
    LET before == PostView(post_id) IN
    /\ IF post_id \notin list_posts
       THEN /\ UNCHANGED <<posts, comments, postLikes, reportedPosts,
                           postRecommendations>>
            /\ Log("delete_post", user, post_id, "PostNotFoundException",
                   before, before)
       ELSE IF ~HasPostAccess(posts[post_id], user)
       THEN /\ UNCHANGED <<posts, comments, postLikes, reportedPosts,
                           postRecommendations>>
            /\ Log("delete_post", user, post_id, "UnauthorizedPostAccess",
                   before, before)
       ELSE /\ posts' = [p \in DOMAIN posts \ {post_id} |-> posts[p]]
            /\ comments' = [c \in {x \in DOMAIN comments : comments[x].post # post_id}
                             |-> comments[c]]
            /\ postLikes' = WithoutPost(postLikes, post_id)
            /\ reportedPosts' = WithoutPost(reportedPosts, post_id)
            /\ postRecommendations' = NotRecommended(post_id)
            /\ Log("delete_post", user, post_id, "True", before, PostView(post_id)')
    /\ UNCHANGED <<userVars, nextPostId, nextCommentId, userFollows,
                   nextRecId, outbox, jobs,
                   fileVars, emails, requests>>

\* Mutant of get_post_by_id: the post is looked up among all posts.
get_any_post_by_id(post_id) ==
    IF post_id \in DOMAIN posts THEN "Post" ELSE "PostNotFoundException"

\* get_post_by_id: the post among the active posts, or PostNotFoundException.
get_post_by_id(post_id) ==
    IF post_id \in list_posts THEN "Post" ELSE "PostNotFoundException"

\* retrieve: get_post_by_id on behalf of a user; it reads and writes nothing.
GetPost(post_id, user) ==
    /\ Log("get_post_by_id", user, post_id, get_post_by_id(post_id),
           PostView(post_id), PostView(post_id))
    /\ UNCHANGED <<userVars, postVars, commentVars, postLikes, reportedPosts,
                   userFollows, recVars, outbox, jobs,
                   fileVars, emails, requests>>

\* The admin site's change form of Post, used to clear is_active.
DeactivatePost(post_id) ==
    /\ post_id \in list_posts
    /\ posts' = [posts EXCEPT ![post_id].is_active = FALSE]
    /\ Log("admin_change_post", 0, post_id, "saved", TRUE, FALSE)
    /\ UNCHANGED <<userVars, nextPostId, commentVars, postLikes, reportedPosts,
                   userFollows, recVars, outbox, jobs,
                   fileVars, emails, requests>>

\* ------------------------------------------------------ recommendation job
\* users: list_users().exclude(is_staff=True, is_superuser=True).  An exclude
\* with two conditions removes the rows that meet both.
JobUsers == {u \in list_users : ~(u \in staff /\ u \in superusers)}

\* user_liked_posts[user.id]: the ids of the posts the user has liked.
user_liked_posts(user) ==
    {r.post : r \in {x \in BagToSet(postLikes) : x.user = user}}

\* The orders random.shuffle can leave a list of the posts in S in.
Shuffles(S) ==
    {order \in [1..Cardinality(S) -> S] :
        \A i \in DOMAIN order, j \in DOMAIN order : i # j => order[i] # order[j]}

\* Mutant of recommend_posts: the liked posts are not filtered out.
recommend_liked_posts(all_posts, liked_posts_ids) ==
    SubSeq(all_posts, 1,
           IF Len(all_posts) < RECOMMEND_POST_SIZE THEN Len(all_posts)
           ELSE RECOMMEND_POST_SIZE)

\* recommend_posts: the shuffled posts without the liked ones, truncated to
\* RECOMMEND_POST_SIZE.
recommend_posts(all_posts, liked_posts_ids) ==
    LET unliked == SelectSeq(all_posts, LAMBDA post : post \notin liked_posts_ids)
    IN SubSeq(unliked, 1,
              IF Len(unliked) < RECOMMEND_POST_SIZE THEN Len(unliked)
              ELSE RECOMMEND_POST_SIZE)

\* The posts of a list, as the many-to-many table stores them.
PostsOf(post_list) == {post_list[i] : i \in DOMAIN post_list}

\* The recommendation records of a user.
RecordsOf(user) ==
    {r \in DOMAIN postRecommendations : postRecommendations[r].user = user}

\* The sets recommended_posts_ids can hold for a user: one per order the
\* shuffle can produce.
Recommendable(user) ==
    {PostsOf(recommend_posts(order, user_liked_posts(user))) :
        order \in Shuffles(list_posts)}

\* What one run can read: the users it processes, a recommendation list for
\* each and, for each user that has records, the one that
\* existing_recommendations_dict keeps.
JobReads ==
    {[users |-> JobUsers, user_recommendations |-> recommended, existing |-> kept] :
        recommended \in {f \in [JobUsers -> SUBSET list_posts] :
                            \A u \in JobUsers : f[u] \in Recommendable(u)},
        kept \in {e \in [{u \in JobUsers : RecordsOf(u) # {}} ->
                            DOMAIN postRecommendations] :
                     \A u \in DOMAIN e : e[u] \in RecordsOf(u)}}

\* Mutant of Cleared: recommend_posts.clear() is skipped.
NotCleared(recommended) == recommended

\* user_recommendation.recommend_posts.clear()
Cleared(recommended) == {}

\* The table after the run wrote the records of the users in written: the
\* kept record of a user is cleared and refilled, and a user without a record
\* gets a new one.
Written(job, written) ==
    LET updated == {u \in written : u \in DOMAIN job.existing}
        created == written \ updated
        NewId(u) == nextRecId + Cardinality({v \in created : v < u})
        UserOf(r) == CHOOSE u \in written :
                        \/ u \in updated /\ job.existing[u] = r
                        \/ u \in created /\ NewId(u) = r
    IN [r \in DOMAIN postRecommendations \cup {NewId(u) : u \in created} |->
          IF \E u \in updated : job.existing[u] = r
          THEN [postRecommendations[r] EXCEPT !.recommend_posts =
                   Cleared(@) \cup job.user_recommendations[UserOf(r)]]
          ELSE IF r \in DOMAIN postRecommendations
          THEN postRecommendations[r]
          ELSE [user |-> UserOf(r),
                recommend_posts |-> job.user_recommendations[UserOf(r)]]]

\* Mutant of RolledBack: the writes made before the failure are kept.
NotRolledBack(before, partial) == partial

\* The table after an exception left the atomic block.
RolledBack(before, partial) == before

\* What a run finds and leaves, as list_post_recommendation shows it: the
\* number of records, and the number of records that hold a post their user
\* likes.
JobView ==
    [records |-> Cardinality(DOMAIN postRecommendations),
     liked |-> Cardinality({r \in DOMAIN postRecommendations :
                  postRecommendations[r].recommend_posts
                      \cap user_liked_posts(postRecommendations[r].user) # {}})]

\* create_post_recommendations, run to its end with no other call in between.
\* An exception anywhere in the run, after the records of some users were
\* written, is caught and printed; the job returns None either way.
CreatePostRecommendations(failed) ==
    /\ jobs = <<>>
    /\ UNCHANGED <<userVars, postVars, commentVars, postLikes, reportedPosts,
                   userFollows, outbox, jobs,
                   fileVars, emails, requests>>
    /\ \E job \in JobReads :
          IF failed
          THEN \E written \in SUBSET job.users :
                  /\ postRecommendations' =
                         RolledBack(postRecommendations, Written(job, written))
                  /\ nextRecId' = nextRecId
                  /\ Log("create_post_recommendations", 0, 0, "error printed",
                         JobView, JobView')
          ELSE /\ postRecommendations' = Written(job, job.users)
               /\ nextRecId' = nextRecId
                      + Cardinality(job.users \ DOMAIN job.existing)
               /\ Log("create_post_recommendations", 0, 0, "done",
                      JobView, JobView')

\* A run in worker slot j opens its transaction and reads.
JobStart(j) ==
    /\ j \notin DOMAIN jobs
    /\ \E job \in JobReads : jobs' = (j :> job) @@ jobs
    /\ UNCHANGED <<userVars, postVars, commentVars, postLikes, reportedPosts,
                   userFollows, recVars, outbox, calls,
                   fileVars, emails, requests>>

\* The rows a run read are still there when it writes: a write that refers
\* to a deleted user, record or post violates a foreign key.
StillThere(job) ==
    /\ job.users \subseteq users
    /\ \A u \in DOMAIN job.existing : job.existing[u] \in DOMAIN postRecommendations
    /\ \A u \in job.users : job.user_recommendations[u] \subseteq DOMAIN posts

\* The run in worker slot j writes what it computed and commits.  It sees the
\* records as they were when it read them: a record committed since then by
\* another run is not in existing_recommendations_dict.
JobCommit(j) ==
    /\ j \in DOMAIN jobs
    /\ StillThere(jobs[j])
    /\ UNCHANGED <<userVars, postVars, commentVars, postLikes, reportedPosts,
                   userFollows, outbox,
                   fileVars, emails, requests>>
    /\ postRecommendations' = Written(jobs[j], jobs[j].users)
    /\ nextRecId' = nextRecId
           + Cardinality(jobs[j].users \ DOMAIN jobs[j].existing)
    /\ jobs' = [k \in DOMAIN jobs \ {j} |-> jobs[k]]
    /\ Log("create_post_recommendations", 0, j, "done", JobView, JobView')

\* The run in worker slot j raises, after the records of some users were
\* written: the transaction is rolled back and the error is printed.
JobFail(j) ==
    /\ j \in DOMAIN jobs
    /\ UNCHANGED <<userVars, postVars, commentVars, postLikes, reportedPosts,
                   userFollows, outbox,
                   fileVars, emails, requests>>
    /\ \E written \in SUBSET jobs[j].users :
          /\ written # jobs[j].users \/ ~StillThere(jobs[j])
          /\ postRecommendations' =
                 RolledBack(postRecommendations, Written(jobs[j], written))
    /\ nextRecId' = nextRecId
    /\ jobs' = [k \in DOMAIN jobs \ {j} |-> jobs[k]]
    /\ Log("create_post_recommendations", 0, j, "error printed", JobView, JobView')

\* ---------------------------------------------------------- administrator
\* What the administrator's deletion of post_id can see: whether the post is
\* listed, the rows that reference it and the number of mails sent so far.
AdminView(post_id) ==
    [listed |-> post_id \in list_posts,
     rows |-> RowsOfPost(postLikes, post_id) + RowsOfPost(reportedPosts, post_id)
                 + CommentsOfPost(post_id),
     mails |-> Len(outbox)]

\* Mutant of DeletionMail: the template data carries no description.
DeletionMailWithoutDescription(post) ==
    [to |-> post.user, post_description |-> "none"]

\* send_post_deletion_mail: the mail to the owner of the post, with the
\* description of the post object that was deleted.
DeletionMail(post) == [to |-> post.user, post_description |-> post.description]

\* The table a transaction leaves when send_post_deletion_mail raises inside
\* it: the exception leaves the atomic block and the deletion is rolled back.
AfterFailedMail(before, deleted) == before

\* request.user of a request that carries no session.
AnonymousUser == 0

\* DeleteReportedPostView.delete: the request of any client is passed on to
\* delete_reported_post.  The mail is sent inside the transaction that
\* deletes the post; the mail backend either accepts the mail or raises.
DeleteReportedPostView(client, post_id, mail_sent) ==
    LET before == AdminView(post_id)
        deleted == [posts |-> [p \in DOMAIN posts \ {post_id} |-> posts[p]],
                    comments |-> [c \in {x \in DOMAIN comments :
                                            comments[x].post # post_id}
                                    |-> comments[c]],
                    postLikes |-> WithoutPost(postLikes, post_id),
                    reportedPosts |-> WithoutPost(reportedPosts, post_id),
                    postRecommendations |-> NotRecommended(post_id)]
        kept == [posts |-> posts, comments |-> comments, postLikes |-> postLikes,
                 reportedPosts |-> reportedPosts,
                 postRecommendations |-> postRecommendations]
        Write(tables) ==
            /\ posts' = tables.posts
            /\ comments' = tables.comments
            /\ postLikes' = tables.postLikes
            /\ reportedPosts' = tables.reportedPosts
            /\ postRecommendations' = tables.postRecommendations
    IN
    /\ IF post_id \notin list_posts
       THEN /\ Write(kept)
            /\ UNCHANGED outbox
            /\ Log("delete_reported_post", client, post_id,
                   "PostNotFoundException", before, before)
       ELSE IF mail_sent
       THEN /\ Write(deleted)
            /\ outbox' = Append(outbox, DeletionMail(posts[post_id]))
            /\ Log("delete_reported_post", client, post_id, "deleted",
                   before, AdminView(post_id)')
       ELSE /\ Write(AfterFailedMail(kept, deleted))
            /\ UNCHANGED outbox
            /\ Log("delete_reported_post", client, post_id, "mail not sent",
                   before, AdminView(post_id)')
    /\ UNCHANGED <<userVars, nextPostId, nextCommentId, userFollows, nextRecId,
                   jobs, fileVars, emails, requests>>

\* delete_reported_post, called by DeleteReportedPostView.delete.
DeleteReportedPost(post_id, mail_sent) ==
    DeleteReportedPostView(AnonymousUser, post_id, mail_sent)

\* ---------------------------------------------------------------- follows
\* What a follow operation on the ordered pair follower -> following can see.
FollowView(follower, following) ==
    [pending |-> CopiesIn(FollowRow(follower, following, FALSE), userFollows),
     accepted |-> CopiesIn(FollowRow(follower, following, TRUE), userFollows)]

\* The state of the ordered pair in the follow workflow.
PairState(follower, following) ==
    IF FollowView(follower, following).accepted > 0 THEN "accepted"
    ELSE IF FollowView(follower, following).pending > 0 THEN "pending"
    ELSE "absent"

\* The self-follow test: the caller's printed id against the text received.
IsSelf(user, following_user_id) == str(user) = following_user_id

\* exist_user_follow_obj of the toggle: the rows follower -> following.
ExistingFollows(follower, following) ==
    Filter(userFollows, {r \in BagToSet(userFollows) :
                            r.follower = follower /\ r.following = following})

\* Mutant of PendingRequests: the is_accepted filter is dropped.
AnyRequests(follower, user) ==
    Filter(userFollows, {r \in BagToSet(userFollows) :
                            r.follower = follower /\ r.following = user})

\* exist_user_follow_obj of accept and delete: the pending rows follower -> user.
PendingRequests(follower, user) ==
    Filter(userFollows, {r \in BagToSet(userFollows) :
                            /\ r.follower = follower
                            /\ r.following = user
                            /\ r.is_accepted = FALSE})

\* Mutant of NewFollow: the new row is born accepted.
NewFollowAccepted(follower, following) == FollowRow(follower, following, TRUE)

\* The row the UserFollow factory builds: is_accepted takes its default.
NewFollow(follower, following) == FollowRow(follower, following, FALSE)

\* Mutant of UnfollowMessage: the label ignores is_accepted.
UnfollowMessageDeleted(is_accepted) == "Follow request deleted."

\* action_message after the toggle deleted a row.
UnfollowMessage(is_accepted) ==
    IF is_accepted THEN "You have unfollowed." ELSE "Follow request deleted."

\* follow_or_unfollow_user
FollowOrUnfollowUser(user, following_user_id) ==
    LET following == to_python(following_user_id)
        before == FollowView(user, following)
        Failed(exception) ==
            /\ UNCHANGED userFollows
            /\ Log("follow_or_unfollow_user", user, following_user_id, exception,
                   before, before)
        Done(message) ==
            Log("follow_or_unfollow_user", user, following_user_id, message,
                before, FollowView(user, following)')
    IN
    /\ IF IsSelf(user, following_user_id)
       THEN Failed("CannotFollowSelfException")
       ELSE IF following \notin list_users
       THEN Failed("UserNotFoundException")
       ELSE IF ExistingFollows(user, following) # EmptyBag
       THEN \E row \in BagToSet(ExistingFollows(user, following)) :
                /\ userFollows' = userFollows (-) SetToBag({row})
                /\ Done(UnfollowMessage(row.is_accepted))
       ELSE IF user \notin users
       THEN \* the new row's follower has no user row
            Failed("IntegrityError")
       ELSE /\ BagCardinality(userFollows) < MaxFollows
            /\ userFollows' =
                   userFollows (+) SetToBag({NewFollow(user, following)})
            /\ Done("Follow request sent.")
    /\ UNCHANGED <<userVars, postVars, commentVars, postLikes, reportedPosts,
                   recVars, outbox, jobs,
                   fileVars, emails, requests>>

\* accept_follow_request_of_user
AcceptFollowRequest(user, follower_user_id) ==
    LET follower == to_python(follower_user_id)
        before == FollowView(follower, user)
        Failed(exception) ==
            /\ UNCHANGED userFollows
            /\ Log("accept_follow_request_of_user", user, follower_user_id,
                   exception, before, before)
    IN
    /\ IF follower \notin list_users
       THEN Failed("UserNotFoundException")
       ELSE IF PendingRequests(follower, user) = EmptyBag
       THEN Failed("UserFollowNotFoundException")
       ELSE \E row \in BagToSet(PendingRequests(follower, user)) :
                /\ userFollows' = (userFollows (-) SetToBag({row})) (+)
                       SetToBag({[row EXCEPT !.is_accepted = TRUE]})
                /\ Log("accept_follow_request_of_user", user, follower_user_id,
                       "accepted", before, FollowView(follower, user)')
    /\ UNCHANGED <<userVars, postVars, commentVars, postLikes, reportedPosts,
                   recVars, outbox, jobs,
                   fileVars, emails, requests>>

\* delete_follow_request_of_user
DeleteFollowRequest(user, follower_user_id) ==
    LET follower == to_python(follower_user_id)
        before == FollowView(follower, user)
        Failed(exception) ==
            /\ UNCHANGED userFollows
            /\ Log("delete_follow_request_of_user", user, follower_user_id,
                   exception, before, before)
    IN
    /\ IF follower \notin list_users
       THEN Failed("UserNotFoundException")
       ELSE IF PendingRequests(follower, user) = EmptyBag
       THEN Failed("UserFollowNotFoundException")
       ELSE \E row \in BagToSet(PendingRequests(follower, user)) :
                /\ userFollows' = userFollows (-) SetToBag({row})
                /\ Log("delete_follow_request_of_user", user, follower_user_id,
                       "True", before, FollowView(follower, user)')
    /\ UNCHANGED <<userVars, postVars, commentVars, postLikes, reportedPosts,
                   recVars, outbox, jobs,
                   fileVars, emails, requests>>

\* -------------------------------------------------------- specifications
NextLike ==
    \/ CreateUser
    \/ \E u \in UserIds : CreatePost(u, "d1")
    \/ \E u \in UserIds, p \in PostIds : LikeOrUnlikePost(u, p)

SpecLike == Init /\ [][NextLike]_vars

NextReport ==
    \/ CreateUser
    \/ \E u \in UserIds : CreatePost(u, "d1")
    \/ \E u \in UserIds, p \in PostIds : PostReporting(u, p)

SpecReport == Init /\ [][NextReport]_vars

NextComment ==
    \/ CreateUser
    \/ \E u \in UserIds : CreatePost(u, "d1")
    \/ \E u \in UserIds, p \in PostIds : CreatePostComment(u, p)
    \/ \E c \in CommentIds, u \in UserIds : DeleteComment(c, u)

SpecComment == Init /\ [][NextComment]_vars

NextPost ==
    \/ CreateUser
    \/ \E u \in UserIds, d \in Descriptions : CreatePost(u, d)
    \/ \E p \in PostIds, u \in UserIds, d \in Descriptions : UpdatePost(p, u, d)
    \/ \E p \in PostIds, u \in UserIds : DeletePost(p, u)

SpecPost == Init /\ [][NextPost]_vars

\* The follow workflow, called with user ids in every spelling.
NextFollow ==
    \/ CreateUser
    \/ \E a \in UserIds, b \in UserIdStrings : FollowOrUnfollowUser(a, b)
    \/ \E b \in UserIds, a \in UserIdStrings : AcceptFollowRequest(b, a)
    \/ \E b \in UserIds, a \in UserIdStrings : DeleteFollowRequest(b, a)

SpecFollow == Init /\ [][NextFollow]_vars

\* The follow workflow, called with user ids spelled as the API prints them.
NextFollowPrinted ==
    \/ CreateUser
    \/ \E a \in UserIds, b \in UserIds : FollowOrUnfollowUser(a, str(b))
    \/ \E b \in UserIds, a \in UserIds : AcceptFollowRequest(b, str(a))
    \/ \E b \in UserIds, a \in UserIds : DeleteFollowRequest(b, str(a))

SpecFollowPrinted == Init /\ [][NextFollowPrinted]_vars

\* ------------------------------------------- requests served side by side
\* The connections whose requests the server handles at the same time.
Clients == {"c1", "c2"}

\* The requests that have done their reads and not yet run their transaction.
InFlight == DOMAIN requests

\* What a request holds between its reads and its transaction.
Request(op, user, target, input, read) ==
    [op |-> op, user |-> user, target |-> target, input |-> input,
     read |-> read]

\* The requests table once the request of connection c has been answered.
Answered(c) == [d \in InFlight \ {c} |-> requests[d]]

\* A step of an overlapping request ends the run of consecutive invocations
\* that calls records.
Interleaved == calls' = <<>>

\* post_obj.save(): every column of the row is written from the object the
\* request holds; a row that is gone is inserted again.
Saved(post_id, post_obj) ==
    [p \in DOMAIN posts \cup {post_id} |->
        IF p = post_id THEN post_obj ELSE posts[p]]

\* like_or_unlike_post up to the transaction: the post and the existing like
\* are read.
LikeRead(c, user, post_id) ==
    /\ c \notin InFlight
    /\ post_id \in list_posts
    /\ user \in users
    /\ requests' =
           (c :> Request("like_or_unlike_post", user, post_id, "none",
                         [post_obj |-> posts[post_id],
                          existed |-> ExistingLikes(user, post_id) # EmptyBag]))
           @@ requests
    /\ Interleaved
    /\ UNCHANGED <<store, storage, outbox, jobs>>

\* like_or_unlike_post, the transaction: the row is deleted or created and
\* the post held since the read is saved.
LikeWrite(c) ==
    /\ c \in InFlight
    /\ requests[c].op = "like_or_unlike_post"
    /\ LET user == requests[c].user
           post_id == requests[c].target
           post_obj == requests[c].read.post_obj
       IN
       IF requests[c].read.existed
       THEN IF UnlikedPost(post_obj).likes_count < 0
            THEN \* PositiveIntegerField: the save fails, the delete is undone
                 UNCHANGED <<posts, postLikes>>
            ELSE /\ IF ExistingLikes(user, post_id) # EmptyBag
                    THEN postLikes' =
                             postLikes (-) SetToBag({PostUserRow(post_id, user)})
                    ELSE \* the row was deleted meanwhile: nothing to delete
                         UNCHANGED postLikes
                 /\ posts' = Saved(post_id, UnlikedPost(post_obj))
       ELSE IF user \notin users
       THEN \* the new row's foreign key has no user row
            UNCHANGED <<posts, postLikes>>
       ELSE /\ postLikes' = postLikes (+) SetToBag({PostUserRow(post_id, user)})
            /\ posts' = Saved(post_id, LikedPost(post_obj))
    /\ requests' = Answered(c)
    /\ Interleaved
    /\ UNCHANGED <<userVars, nextPostId, commentVars, reportedPosts, userFollows,
                   recVars, outbox, jobs, fileVars, emails>>

\* post_reporting up to the transaction: the post is read and no report of
\* the caller is found.
ReportRead(c, user, post_id) ==
    /\ c \notin InFlight
    /\ post_id \in list_posts
    /\ user \in users
    /\ ~AlreadyReported(user, post_id)
    /\ requests' =
           (c :> Request("post_reporting", user, post_id, "none",
                         [post_obj |-> posts[post_id], existed |-> FALSE]))
           @@ requests
    /\ Interleaved
    /\ UNCHANGED <<store, storage, outbox, jobs>>

\* post_reporting, the transaction.
ReportWrite(c) ==
    /\ c \in InFlight
    /\ requests[c].op = "post_reporting"
    /\ LET user == requests[c].user
           post_id == requests[c].target
           post_obj == requests[c].read.post_obj
       IN
       IF user \notin users
       THEN UNCHANGED <<posts, reportedPosts>>
       ELSE /\ reportedPosts' =
                   reportedPosts (+) SetToBag({PostUserRow(post_id, user)})
            /\ posts' = Saved(post_id, ReportedPost(post_obj))
    /\ requests' = Answered(c)
    /\ Interleaved
    /\ UNCHANGED <<userVars, nextPostId, commentVars, postLikes, userFollows,
                   recVars, outbox, jobs, fileVars, emails>>

\* create_post_comment up to the transaction: the post is read.
CommentRead(c, user, post_id) ==
    /\ c \notin InFlight
    /\ post_id \in list_posts
    /\ user \in users
    /\ requests' =
           (c :> Request("create_post_comment", user, post_id, "none",
                         [post_obj |-> posts[post_id], existed |-> FALSE]))
           @@ requests
    /\ Interleaved
    /\ UNCHANGED <<store, storage, outbox, jobs>>

\* create_post_comment, the transaction.
CommentWrite(c) ==
    /\ c \in InFlight
    /\ requests[c].op = "create_post_comment"
    /\ nextCommentId <= MaxComments
    /\ LET user == requests[c].user
           post_id == requests[c].target
           post_obj == requests[c].read.post_obj
       IN
       IF user \notin users
       THEN UNCHANGED <<posts, commentVars>>
       ELSE /\ comments' =
                   (nextCommentId :> [post |-> post_id, user |-> user])
                   @@ comments
            /\ nextCommentId' = nextCommentId + 1
            /\ posts' = Saved(post_id, CommentedPost(post_obj))
    /\ requests' = Answered(c)
    /\ Interleaved
    /\ UNCHANGED <<userVars, nextPostId, postLikes, reportedPosts, userFollows,
                   recVars, outbox, jobs, fileVars, emails>>

\* update_post_from_dict up to the transaction: the post is read and the
\* caller's access is checked.
UpdateRead(c, post_id, user, description) ==
    /\ c \notin InFlight
    /\ post_id \in list_posts
    /\ HasPostAccess(posts[post_id], user)
    /\ requests' =
           (c :> Request("update_post_from_dict", user, post_id, description,
                         [post_obj |-> posts[post_id], existed |-> FALSE]))
           @@ requests
    /\ Interleaved
    /\ UNCHANGED <<store, storage, outbox, jobs>>

\* update_post_from_dict, the transaction.
UpdateWrite(c) ==
    /\ c \in InFlight
    /\ requests[c].op = "update_post_from_dict"
    /\ posts' = Saved(requests[c].target,
                      [requests[c].read.post_obj
                          EXCEPT !.description = requests[c].input])
    /\ requests' = Answered(c)
    /\ Interleaved
    /\ UNCHANGED <<userVars, nextPostId, commentVars, postLikes, reportedPosts,
                   userFollows, recVars, outbox, jobs, fileVars, emails>>

\* follow_or_unfollow_user up to the transaction: the self test, the target
\* and the existing row are read.
FollowRead(c, user, following_user_id) ==
    LET following == to_python(following_user_id) IN
    /\ c \notin InFlight
    /\ ~IsSelf(user, following_user_id)
    /\ following \in list_users
    /\ user \in users
    /\ \E existing \in IF ExistingFollows(user, following) = EmptyBag
                       THEN {NewFollow(user, following)}
                       ELSE BagToSet(ExistingFollows(user, following)) :
          requests' =
              (c :> Request("follow_or_unfollow_user", user, following_user_id,
                            "none",
                            [row |-> existing,
                             existed |->
                                 ExistingFollows(user, following) # EmptyBag]))
              @@ requests
    /\ Interleaved
    /\ UNCHANGED <<store, storage, outbox, jobs>>

\* follow_or_unfollow_user, the transaction: the row read is deleted, or the
\* row built from the two users is created.
FollowWrite(c) ==
    /\ c \in InFlight
    /\ requests[c].op = "follow_or_unfollow_user"
    /\ LET user == requests[c].user
           following == to_python(requests[c].target)
           row == requests[c].read.row
       IN
       IF requests[c].read.existed
       THEN IF CopiesIn(row, userFollows) > 0
            THEN userFollows' = userFollows (-) SetToBag({row})
            ELSE UNCHANGED userFollows
       ELSE IF user \notin users \/ following \notin users
       THEN UNCHANGED userFollows
       ELSE userFollows' = userFollows (+) SetToBag({row})
    /\ requests' = Answered(c)
    /\ Interleaved
    /\ UNCHANGED <<userVars, postVars, commentVars, postLikes, reportedPosts,
                   recVars, outbox, jobs, fileVars, emails>>

\* Number of comment, like and report rows in the tables.
ChildRows ==
    BagCardinality(postLikes) + BagCardinality(reportedPosts)
        + Cardinality(DOMAIN comments)

\* Every operation that targets a post, called by the acting users on posts
\* that were never created, are active, were deactivated or were deleted.
NextLookup ==
    \/ nextUserId <= MaxActors /\ CreateUser
    \/ \E u \in Actors : CreatePost(u, "d1")
    \/ \E p \in PostIds : DeactivatePost(p)
    \/ \E p \in PostIds, u \in Actors : GetPost(p, u)
    \/ \E p \in PostIds, u \in Actors : UpdatePost(p, u, "d2")
    \/ \E p \in PostIds, u \in Actors : DeletePost(p, u)
    \/ \E u \in Actors, p \in PostIds :
          CreatePostComment(u, p) /\ ChildRows' <= MaxChildRows
    \/ \E u \in Actors, p \in PostIds :
          LikeOrUnlikePost(u, p) /\ ChildRows' <= MaxChildRows
    \/ \E u \in Actors, p \in PostIds :
          PostReporting(u, p) /\ ChildRows' <= MaxChildRows

SpecLookup == Init /\ [][NextLookup]_vars

\* The administrator's deletion, on posts that carry comments, likes and
\* reports, whose description was edited and that were deactivated.
NextAdmin ==
    \/ nextUserId <= MaxActors /\ CreateUser
    \/ \E u \in Actors : CreatePost(u, "d1")
    \/ \E p \in PostIds, u \in Actors : UpdatePost(p, u, "d2")
    \/ \E p \in PostIds : DeactivatePost(p)
    \/ \E u \in Actors, p \in PostIds :
          CreatePostComment(u, p) /\ ChildRows' <= MaxChildRows
    \/ \E u \in Actors, p \in PostIds :
          LikeOrUnlikePost(u, p) /\ ChildRows' <= MaxChildRows
    \/ \E u \in Actors, p \in PostIds :
          PostReporting(u, p) /\ ChildRows' <= MaxChildRows
    \/ \E p \in PostIds, mail_sent \in BOOLEAN : DeleteReportedPost(p, mail_sent)

SpecAdmin == Init /\ [][NextAdmin]_vars

\* The serial runs of the recommendation job over the posts and likes of
\* ordinary users.  The job never reads the owner of a post, so one user
\* creates them all.
NextJob ==
    \/ nextUserId <= MaxJobUsers /\ CreateUser
    \/ CreatePost(1, "d1")
    \/ \E p \in PostIds : DeactivatePost(p)
    \/ \E u \in JobActors, p \in PostIds :
          LikeOrUnlikePost(u, p) /\ ChildRows' <= MaxChildRows
    \/ \E failed \in BOOLEAN : CreatePostRecommendations(failed)

SpecJob == Init /\ [][NextJob]_vars

\* The serial runs of the recommendation job over users of every kind.
NextJobUsers ==
    \/ CreateUser
    \/ \E is_superuser \in BOOLEAN : CreateStaffUser(is_superuser)
    \/ CreatePost(1, "d1")
    \/ \E failed \in BOOLEAN : CreatePostRecommendations(failed)

SpecJobUsers == Init /\ [][NextJobUsers]_vars

\* Runs of the recommendation job that overlap: each opens its transaction
\* and reads, and writes and commits later.
NextJobOverlap ==
    \/ nextUserId <= MaxJobUsers /\ CreateUser
    \/ \E j \in JobIds : JobStart(j)
    \/ \E j \in JobIds : JobCommit(j)
    \/ \E j \in JobIds : JobFail(j)

SpecJobOverlap == Init /\ [][NextJobOverlap]_vars

\* The operations that write a counter of a post, with account deletion.
NextAccount ==
    \/ CreateUser
    \/ \E u \in UserIds : CreatePost(u, "d1")
    \/ \E u \in UserIds, p \in PostIds : LikeOrUnlikePost(u, p)
    \/ \E u \in UserIds, p \in PostIds : CreatePostComment(u, p)
    \/ \E c \in CommentIds, u \in UserIds : DeleteComment(c, u)
    \/ \E u \in UserIds, p \in PostIds : PostReporting(u, p)
    \/ \E u \in UserIds : DeleteUser(u)

SpecAccount == Init /\ [][NextAccount]_vars

\* The rows that reference a user or a post.
Rows ==
    ChildRows + BagCardinality(userFollows)
    + Cardinality(DOMAIN postRecommendations)

\* The operations that create a row that references a user or a post, called
\* by existing users on existing posts, with the two deletions that cascade.
NextCascade ==
    \/ nextUserId <= MaxJobUsers /\ CreateUser
    \/ CreatePost(1, "d1")
    \/ \E u \in users, p \in DOMAIN posts :
          LikeOrUnlikePost(u, p) /\ Rows' <= MaxChildRows
    \/ \E u \in users, p \in DOMAIN posts :
          CreatePostComment(u, p) /\ Rows' <= MaxChildRows
    \/ \E u \in users, p \in DOMAIN posts :
          PostReporting(u, p) /\ Rows' <= MaxChildRows
    \/ \E a \in users, b \in users :
          /\ a # b
          /\ FollowOrUnfollowUser(a, str(b))
          /\ Rows' <= MaxChildRows
    \/ CreatePostRecommendations(FALSE) /\ Rows' <= MaxChildRows
    \/ \E u \in users : DeleteUser(u)
    \/ \E p \in DOMAIN posts : DeletePost(p, posts[p].user)

SpecCascade == Init /\ [][NextCascade]_vars

\* Posts created with and without a file.
NextFile ==
    \/ nextUserId <= MaxJobUsers /\ CreateUser
    \/ \E u \in JobActors, d \in Descriptions, f \in FileNames \cup {NoFile} :
          CreatePostFromDict(u, d, f)

SpecFile == Init /\ [][NextFile]_vars

\* Sign-ups and profile updates with every address.
NextEmail ==
    \/ \E email \in Emails : CreateUserFromDict(email)
    \/ \E u \in UserIds, email \in Emails \cup {NoEmail} :
          UpdateUserFromDict(u, email)

SpecEmail == Init /\ [][NextEmail]_vars

\* The same request sent twice: no request of another kind, caller or
\* target is between its reads and its transaction.
Identical(op, user, target) ==
    \A d \in InFlight : /\ requests[d].op = op
                        /\ requests[d].user = user
                        /\ requests[d].target = target

\* The first user likes, reports and follows: one call at a time, or the
\* same request sent again while the first is being served.
NextRace ==
    \/ nextUserId <= MaxJobUsers /\ CreateUser
    \/ CreatePost(1, "d1")
    \/ \E p \in DOMAIN posts : InFlight = {} /\ LikeOrUnlikePost(1, p)
    \/ \E p \in DOMAIN posts : InFlight = {} /\ PostReporting(1, p)
    \/ \E b \in users \ {1} :
          InFlight = {} /\ FollowOrUnfollowUser(1, str(b))
    \/ \E c \in Clients, p \in DOMAIN posts :
          Identical("like_or_unlike_post", 1, p) /\ LikeRead(c, 1, p)
    \/ \E c \in Clients, p \in DOMAIN posts :
          Identical("post_reporting", 1, p) /\ ReportRead(c, 1, p)
    \/ \E c \in Clients, b \in users \ {1} :
          Identical("follow_or_unfollow_user", 1, str(b))
          /\ FollowRead(c, 1, str(b))
    \/ \E c \in Clients : LikeWrite(c)
    \/ \E c \in Clients : ReportWrite(c)
    \/ \E c \in Clients : FollowWrite(c)

SpecRace == Init /\ [][NextRace]_vars

\* No request of the user is between its reads and its transaction.
NoneInFlight(user) == \A d \in InFlight : requests[d].user # user

\* Requests of different users on a post, served side by side: each request
\* does its reads, and its transaction commits at some later step.  The like
\* and comment rows, and likes_count, which overlapping likes can push up
\* without end, stay within MaxComments.
NextOverlap ==
    \/ nextUserId <= MaxJobUsers /\ CreateUser
    \/ CreatePost(1, "d1")
    \/ \E c \in Clients, u \in users, p \in DOMAIN posts :
          NoneInFlight(u) /\ LikeRead(c, u, p)
    \/ \E c \in Clients, u \in users, p \in DOMAIN posts :
          NoneInFlight(u) /\ CommentRead(c, u, p)
    \/ \E c \in Clients, p \in DOMAIN posts, d \in Descriptions :
          NoneInFlight(posts[p].user) /\ UpdateRead(c, p, posts[p].user, d)
    \/ \E c \in Clients :
          /\ LikeWrite(c)
          /\ ChildRows' <= MaxComments
          /\ \A p \in DOMAIN posts' : posts'[p].likes_count <= MaxComments
    \/ \E c \in Clients : CommentWrite(c) /\ ChildRows' <= MaxComments
    \/ \E c \in Clients : UpdateWrite(c)

SpecOverlap == Init /\ [][NextOverlap]_vars

\* delete_post_comment, the view: what the client is told for an outcome of
\* delete_comment.  An exception that was raised becomes an error response;
\* a value that was returned, True or an exception object, is not looked at.
DeletePostCommentResponse(outcome) ==
    IF outcome \in {"PostCommentNotFoundException",
                    "UnauthorizedPostCommentAccess"}
    THEN "error"
    ELSE "Post comment has been successfully deleted."

\* Comments on posts that an administrator may deactivate, and their
\* deletion by any user.
NextCommentFailure ==
    \/ nextUserId <= MaxJobUsers /\ CreateUser
    \/ CreatePost(1, "d1")
    \/ \E u \in users, p \in DOMAIN posts : CreatePostComment(u, p)
    \/ \E p \in DOMAIN posts : DeactivatePost(p)
    \/ \E c \in DOMAIN comments, u \in users : DeleteComment(c, u)

SpecCommentFailure == Init /\ [][NextCommentFailure]_vars

\* Users and administrators, posts, reports, and delete-reported-post
\* requests of clients with and without a session.
NextModeration ==
    \/ nextUserId <= MaxJobUsers /\ CreateUser
    \/ \E is_superuser \in BOOLEAN : CreateStaffUser(is_superuser)
    \/ \E u \in users : CreatePost(u, "d1")
    \/ \E u \in users, p \in DOMAIN posts :
          PostReporting(u, p) /\ ChildRows' <= MaxChildRows
    \/ \E client \in users \cup {AnonymousUser}, p \in DOMAIN posts,
          mail_sent \in BOOLEAN : DeleteReportedPostView(client, p, mail_sent)

SpecModeration == Init /\ [][NextModeration]_vars

\* list_post_recommendation, called by the list_recommend_posts view for the
\* authenticated user: the posts of the first record of the user.  Without
\* a record first() is None and the attribute access raises; the view does
\* not catch it.
ListPostRecommendation(user) ==
    /\ user \in users
    /\ IF RecordsOf(user) = {}
       THEN Log("list_post_recommendation", user, user, "AttributeError",
                {}, {})
       ELSE \E r \in RecordsOf(user) :
               Log("list_post_recommendation", user, user, "listed",
                   postRecommendations[r].recommend_posts,
                   postRecommendations[r].recommend_posts)
    /\ UNCHANGED <<store, storage, outbox, jobs, requests>>

\* Users, administrators, liked posts, runs of the recommendation job and
\* users who ask for their recommendations.
NextListing ==
    \/ nextUserId <= MaxJobUsers /\ CreateUser
    \/ \E is_superuser \in BOOLEAN : CreateStaffUser(is_superuser)
    \/ CreatePost(1, "d1")
    \/ \E u \in users, p \in DOMAIN posts :
          LikeOrUnlikePost(u, p) /\ ChildRows' <= MaxChildRows
    \/ CreatePostRecommendations(FALSE)
    \/ \E u \in users : ListPostRecommendation(u)

SpecListing == Init /\ [][NextListing]_vars

Next ==
    \/ CreateUser
    \/ \E a \in UserIds, b \in UserIdStrings : FollowOrUnfollowUser(a, b)
    \/ \E b \in UserIds, a \in UserIdStrings : AcceptFollowRequest(b, a)
    \/ \E b \in UserIds, a \in UserIdStrings : DeleteFollowRequest(b, a)
    \/ \E u \in UserIds, d \in Descriptions : CreatePost(u, d)
    \/ \E p \in PostIds, u \in UserIds, d \in Descriptions : UpdatePost(p, u, d)
    \/ \E p \in PostIds, u \in UserIds : DeletePost(p, u)
    \/ \E u \in UserIds, p \in PostIds : PostReporting(u, p)
    \/ \E u \in UserIds, p \in PostIds : CreatePostComment(u, p)
    \/ \E c \in CommentIds, u \in UserIds : DeleteComment(c, u)
    \/ \E u \in UserIds, p \in PostIds : LikeOrUnlikePost(u, p)
    \/ \E p \in PostIds, u \in UserIds : GetPost(p, u)
    \/ \E p \in PostIds : DeactivatePost(p)
    \/ \E p \in PostIds, mail_sent \in BOOLEAN : DeleteReportedPost(p, mail_sent)
    \/ \E is_superuser \in BOOLEAN : CreateStaffUser(is_superuser)
    \/ \E failed \in BOOLEAN : CreatePostRecommendations(failed)
    \/ \E j \in JobIds : JobStart(j)
    \/ \E j \in JobIds : JobCommit(j)
    \/ \E j \in JobIds : JobFail(j)
    \/ \E u \in UserIds : DeleteUser(u)
    \/ \E u \in UserIds, d \in Descriptions, f \in FileNames :
          CreatePostFromDict(u, d, f)
    \/ \E email \in Emails : CreateUserFromDict(email)
    \/ \E u \in UserIds, email \in Emails \cup {NoEmail} :
          UpdateUserFromDict(u, email)
    \/ \E c \in Clients, u \in UserIds, p \in PostIds : LikeRead(c, u, p)
    \/ \E c \in Clients, u \in UserIds, p \in PostIds : ReportRead(c, u, p)
    \/ \E c \in Clients, u \in UserIds, p \in PostIds : CommentRead(c, u, p)
    \/ \E c \in Clients, u \in UserIds, p \in PostIds, d \in Descriptions :
          UpdateRead(c, p, u, d)
    \/ \E c \in Clients, a \in UserIds, b \in UserIdStrings :
          FollowRead(c, a, b)
    \/ \E c \in Clients : LikeWrite(c)
    \/ \E c \in Clients : ReportWrite(c)
    \/ \E c \in Clients : CommentWrite(c)
    \/ \E c \in Clients : UpdateWrite(c)
    \/ \E c \in Clients : FollowWrite(c)
    \/ \E client \in UserIds \cup {AnonymousUser}, p \in PostIds,
          mail_sent \in BOOLEAN : DeleteReportedPostView(client, p, mail_sent)
    \/ \E u \in UserIds : ListPostRecommendation(u)

Spec == Init /\ [][Next]_vars

\* ------------------------------------------------------------- properties
\* The most recent call.
LastCall == calls[Len(calls)]

\* The call before the most recent one, when it was the same invocation.
PrevCall == calls[Len(calls) - 1]

\* C1: after any serial sequence of like toggles, every post's likes_count
\* equals the number of PostLike rows that reference the post.
LikesCountMatchesRows ==
    \A p \in DOMAIN posts : posts[p].likes_count = RowsOfPost(postLikes, p)

\* C1 witness: a post still holds a like right after another like was removed.
LikesCountWitness ==
    /\ calls # <<>>
    /\ LastCall.op = "like_or_unlike_post"
    /\ LastCall.result = "unliked"
    /\ \E p \in DOMAIN posts : posts[p].likes_count >= 1

\* C2: after any serial sequence of comment creations and deletions, every
\* post's comments_count equals the number of PostComment rows on the post.
CommentsCountMatchesRows ==
    \A p \in DOMAIN posts : posts[p].comments_count = CommentsOfPost(p)

\* C2 witness: a comment was just deleted from a post that keeps another one.
CommentsCountWitness ==
    /\ calls # <<>>
    /\ LastCall.op = "delete_comment"
    /\ LastCall.result = "True"
    /\ \E p \in DOMAIN posts : posts[p].comments_count >= 1

\* C3: two consecutive like toggles by a user U on an active post P restore
\* the likes_count and U's like to what they were before the first; the labels
\* are liked, unliked when U had no like and unliked, liked when U had one;
\* three toggles from unliked end liked with the count one higher.
DoubleToggleRestores ==
    \A i \in 1..(Len(calls) - 1) :
        LET first == calls[i]
            second == calls[i + 1]
        IN (/\ first.op = "like_or_unlike_post"
            /\ first.user \in users
            /\ first.target \in list_posts)
           => /\ second.after = first.before
              /\ first.before.likes = 0
                    => first.result = "liked" /\ second.result = "unliked"
              /\ first.before.likes > 0
                    => first.result = "unliked" /\ second.result = "liked"
              /\ (i + 2 <= Len(calls) /\ first.before.likes = 0)
                    => /\ calls[i + 2].result = "liked"
                       /\ calls[i + 2].after.likes = 1
                       /\ calls[i + 2].after.likes_count =
                              first.before.likes_count + 1

\* C3 witness: three consecutive toggles, liked, unliked, liked.
DoubleToggleWitness ==
    /\ Len(calls) >= 3
    /\ calls[1].op = "like_or_unlike_post"
    /\ calls[1].result = "liked"
    /\ calls[2].result = "unliked"
    /\ calls[3].result = "liked"

\* C4: when a user reports a post and then reports it again, the second call
\* fails with PostAlreadyReported and changes nothing; over the two calls the
\* report_count rose by exactly one and exactly one report row of the pair
\* exists.
SecondReportConflicts ==
    [][(/\ Len(calls') >= 2
        /\ LastCall'.op = "post_reporting"
        /\ PrevCall'.result = "reported")
       => /\ LastCall'.result = "PostAlreadyReportedException"
          /\ UNCHANGED store
          /\ LastCall'.after.report_count = PrevCall'.before.report_count + 1
          /\ LastCall'.after.reports = 1]_vars

\* C4 witness: a report that succeeded, followed by the same report failing.
SecondReportWitness ==
    /\ Len(calls) >= 2
    /\ LastCall.op = "post_reporting"
    /\ PrevCall.result = "reported"
    /\ LastCall.result = "PostAlreadyReportedException"

\* The most recent call was the follow operation op, made by user on the user
\* that the id text it received denotes.
FollowCallWas(op, user, target) ==
    /\ calls # <<>>
    /\ LastCall.op = op
    /\ LastCall.user = user
    /\ to_python(LastCall.target) = target

\* C5: an ordered pair (A, B) moves only absent -> pending by A's toggle,
\* pending -> accepted by B's accept, pending -> absent by A's toggle or B's
\* delete-follow-request, accepted -> absent by A's toggle; never absent ->
\* accepted nor accepted -> pending, and never by a third user's operation.
FollowTransitions ==
    [][userFollows' # userFollows =>
        \A a \in UserIds, b \in UserIds :
          LET from == PairState(a, b)
              to == PairState(a, b)'
              Toggle == FollowCallWas("follow_or_unfollow_user", a, b)'
              Accept == FollowCallWas("accept_follow_request_of_user", b, a)'
              Delete == FollowCallWas("delete_follow_request_of_user", b, a)'
          IN from # to =>
                \/ from = "absent" /\ to = "pending" /\ Toggle
                \/ from = "pending" /\ to = "accepted" /\ Accept
                \/ from = "pending" /\ to = "absent" /\ (Toggle \/ Delete)
                \/ from = "accepted" /\ to = "absent" /\ Toggle]_vars

\* C5 witness: a third user's toggle has just acted while a pair is accepted.
FollowTransitionsWitness ==
    \E a \in UserIds, b \in UserIds :
        /\ PairState(a, b) = "accepted"
        /\ calls # <<>>
        /\ LastCall.op = "follow_or_unfollow_user"
        /\ LastCall.result = "Follow request sent."
        /\ LastCall.user \notin {a, b}

\* A run of consecutive toggles by user A on another user B, both in the store.
ToggleRun ==
    /\ calls # <<>>
    /\ LastCall.op = "follow_or_unfollow_user"
    /\ LastCall.user \in users
    /\ to_python(LastCall.target) \in users
    /\ LastCall.user # to_python(LastCall.target)

\* C6: for two users A and B with no record A -> B, three consecutive toggles
\* by A on B return, in order,
\* 'Follow request sent.', 'Follow request deleted.', 'Follow request sent.'
\* and leave exactly one pending record; when B accepted after A's request,
\* A's next toggle deletes the record and returns 'You have unfollowed.'.
ToggleLabels ==
    [][/\ (ToggleRun' /\ Len(calls') >= 3)
          => \A i \in 1..(Len(calls') - 2) :
                calls'[i].before = [pending |-> 0, accepted |-> 0]
                => /\ calls'[i].result = "Follow request sent."
                   /\ calls'[i + 1].result = "Follow request deleted."
                   /\ calls'[i + 2].result = "Follow request sent."
                   /\ calls'[i + 2].after = [pending |-> 1, accepted |-> 0]
       /\ (/\ calls # <<>>
           /\ LastCall.op = "accept_follow_request_of_user"
           /\ LastCall.result = "accepted"
           /\ LastCall.user # to_python(LastCall.target)
           /\ LastCall'.op = "follow_or_unfollow_user"
           /\ LastCall'.user = to_python(LastCall.target)
           /\ to_python(LastCall'.target) = LastCall.user)
          => /\ LastCall'.result = "You have unfollowed."
             /\ LastCall'.after = [pending |-> 0, accepted |-> 0]]_vars

\* C6 witness: three consecutive toggles that sent, deleted and sent again.
ToggleLabelsWitness ==
    /\ ToggleRun
    /\ Len(calls) >= 3
    /\ calls[1].before = [pending |-> 0, accepted |-> 0]
    /\ calls[3].result = "Follow request sent."

\* C7: a toggle whose target is the caller's own id fails with
\* CannotFollowSelf, whether or not that id is in the store, and creates or
\* deletes no UserFollow record.  The code compares the text of the target
\* with the printed id of the caller, so the caller's id in another spelling
\* passes the test and the toggle goes on to the lookups.
SelfFollowRejected ==
    [][(/\ calls' # <<>>
        /\ LastCall'.op = "follow_or_unfollow_user"
        /\ LastCall'.user = to_python(LastCall'.target))
       => /\ LastCall'.result = "CannotFollowSelfException"
          /\ UNCHANGED store]_vars

\* C8: accept and delete-follow-request by B for A fail with a NotFound error
\* and change no record unless a pending record A -> B exists (so also when
\* the record is already accepted or only the reverse record exists).
RequestNeedsPending ==
    [][(/\ calls' # <<>>
        /\ LastCall'.op \in {"accept_follow_request_of_user",
                             "delete_follow_request_of_user"}
        /\ CopiesIn(FollowRow(to_python(LastCall'.target), LastCall'.user, FALSE),
                    userFollows) = 0)
       => /\ LastCall'.result \in
                 {"UserNotFoundException", "UserFollowNotFoundException"}
          /\ UNCHANGED store]_vars

\* C8 witness: an accept was refused on a record that is already accepted.
RequestNeedsPendingWitness ==
    /\ calls # <<>>
    /\ LastCall.op = "accept_follow_request_of_user"
    /\ LastCall.result = "UserFollowNotFoundException"
    /\ LastCall.before.accepted = 1

\* C9: no UserFollow record has follower = following, and each ordered pair
\* has at most one UserFollow record.  The first half falls with C7: a toggle
\* on the caller's own id in another spelling creates a row A -> A.
FollowRecordsWellFormed ==
    /\ \A r \in BagToSet(userFollows) : r.follower # r.following
    /\ \A a \in UserIds, b \in UserIds :
          FollowView(a, b).pending + FollowView(a, b).accepted <= 1

\* C10: update and delete of a post fail with PostNotFound on a missing post
\* for every caller and with UnauthorizedPostAccess on an existing post of
\* another user, leaving description and existence unchanged; only the
\* owner's call changes a description or removes a post.
OwnerOnlyPostChange ==
    [][/\ (/\ calls' # <<>>
           /\ LastCall'.op \in {"update_post_from_dict", "delete_post"})
          => /\ LastCall'.target \notin DOMAIN posts
                => /\ LastCall'.result = "PostNotFoundException"
                   /\ UNCHANGED store
             /\ (/\ LastCall'.target \in DOMAIN posts
                 /\ posts[LastCall'.target].user # LastCall'.user)
                => /\ LastCall'.result = "UnauthorizedPostAccess"
                   /\ UNCHANGED store
       /\ \A p \in DOMAIN posts :
             (\/ p \notin DOMAIN posts'
              \/ posts'[p].description # posts[p].description)
             => /\ LastCall'.op \in {"update_post_from_dict", "delete_post"}
                /\ LastCall'.target = p
                /\ LastCall'.user = posts[p].user]_vars

\* C10 witness: a user other than the owner was refused the deletion of an
\* existing post.
OwnerOnlyWitness ==
    /\ calls # <<>>
    /\ LastCall.op = "delete_post"
    /\ LastCall.result = "UnauthorizedPostAccess"
    /\ LastCall.target \in DOMAIN posts

\* The operations that target a post.
PostOperations ==
    {"get_post_by_id", "update_post_from_dict", "delete_post",
     "create_post_comment", "like_or_unlike_post", "post_reporting"}

\* C11: an operation that targets a post whose id is absent, was deleted
\* earlier or belongs to an inactive post fails with PostNotFound, creates no
\* comment, like or report row and changes no counter.
MissingPostRejected ==
    [][(/\ calls' # <<>>
        /\ LastCall'.op \in PostOperations
        /\ \/ LastCall'.target \notin DOMAIN posts
           \/ ~posts[LastCall'.target].is_active)
       => /\ LastCall'.result = "PostNotFoundException"
          /\ UNCHANGED store]_vars

\* C11 witness: a like toggle was refused on a deactivated post that holds a
\* like.
MissingPostWitness ==
    /\ calls # <<>>
    /\ LastCall.op = "like_or_unlike_post"
    /\ LastCall.result = "PostNotFoundException"
    /\ LastCall.target \in DOMAIN posts
    /\ ~posts[LastCall.target].is_active
    /\ posts[LastCall.target].likes_count = 1

\* C12: delete_comment fails with PostCommentNotFound on a comment id that does
\* not exist and with UnauthorizedPostCommentAccess for a caller who is not the
\* comment's author, the owner of the post included; in both cases the comment
\* exists afterwards exactly when it did before and comments_count is
\* unchanged.
CommentDeleteRejected ==
    [][(/\ calls' # <<>>
        /\ LastCall'.op = "delete_comment")
       => /\ LastCall'.target \notin DOMAIN comments
             => /\ LastCall'.result = "PostCommentNotFoundException"
                /\ UNCHANGED <<comments, posts>>
          /\ (/\ LastCall'.target \in DOMAIN comments
              /\ comments[LastCall'.target].user # LastCall'.user)
             => /\ LastCall'.result = "UnauthorizedPostCommentAccess"
                /\ UNCHANGED <<comments, posts>>]_vars

\* C12 witness: the owner of a post was refused the deletion of another
\* user's comment on it.
CommentDeleteWitness ==
    /\ calls # <<>>
    /\ LastCall.op = "delete_comment"
    /\ LastCall.result = "UnauthorizedPostCommentAccess"
    /\ LastCall.target \in DOMAIN comments
    /\ comments[LastCall.target].post \in DOMAIN posts
    /\ posts[comments[LastCall.target].post].user = LastCall.user

\* C13: in the administrator's delete_reported_post a failure of the mail does
\* not roll the deletion back: after a run in which sending fails the post is
\* absent from list_posts.  In the code the mail is sent inside the
\* transaction, so its exception undoes the deletion.
DeletionSurvivesMailFailure ==
    [][(/\ calls' # <<>>
        /\ LastCall'.op = "delete_reported_post"
        /\ LastCall'.result = "mail not sent")
       => LastCall'.target \notin list_posts']_vars

\* C14: after a successful delete_reported_post(P), P is absent from
\* list_posts, no comment, like or report row references P, and exactly one
\* mail was sent, to P's owner and with P's description as it was at the
\* deletion; on an id that is not an active post the call signals PostNotFound,
\* deletes nothing and sends no mail.
AdminDeletionNotifies ==
    [][(/\ calls' # <<>>
        /\ LastCall'.op = "delete_reported_post")
       => /\ LastCall'.result = "deleted"
             => /\ LastCall'.target \notin list_posts'
                /\ RowsOfPost(postLikes', LastCall'.target) = 0
                /\ RowsOfPost(reportedPosts', LastCall'.target) = 0
                /\ \A c \in DOMAIN comments' :
                      comments'[c].post # LastCall'.target
                /\ outbox' = Append(outbox,
                      [to |-> posts[LastCall'.target].user,
                       post_description |-> posts[LastCall'.target].description])
          /\ (\/ LastCall'.target \notin DOMAIN posts
              \/ ~posts[LastCall'.target].is_active)
             => /\ LastCall'.result = "PostNotFoundException"
                /\ UNCHANGED <<store, outbox>>]_vars

\* C14 witness: the administrator deleted a post with an edited description
\* that a row referenced, and the mail carries the edited description.
AdminDeletionWitness ==
    /\ calls # <<>>
    /\ LastCall.op = "delete_reported_post"
    /\ LastCall.result = "deleted"
    /\ LastCall.before.rows >= 1
    /\ LastCall.after.rows = 0
    /\ outbox # <<>>
    /\ outbox[Len(outbox)].post_description = "d2"

RunReplacesSet ==
    [][(/\ calls' # <<>>
        /\ LastCall'.op = "create_post_recommendations"
        /\ LastCall'.result = "done")
       => \A r \in DOMAIN postRecommendations :
             /\ r \in DOMAIN postRecommendations'
             /\ postRecommendations'[r].user = postRecommendations[r].user
             /\ RecordsOf(postRecommendations[r].user)'
                   = RecordsOf(postRecommendations[r].user)
             /\ postRecommendations'[r].recommend_posts
                   \cap user_liked_posts(postRecommendations[r].user) = {}
             /\ Cardinality(postRecommendations'[r].recommend_posts)
                   <= RECOMMEND_POST_SIZE]_vars

\* C16 witness: a run succeeded on a record that held a post its user had
\* come to like, and the record no longer holds it.
RunReplacesSetWitness ==
    /\ calls # <<>>
    /\ LastCall.op = "create_post_recommendations"
    /\ LastCall.result = "done"
    /\ LastCall.before.liked >= 1
    /\ LastCall.after.liked = 0
    /\ LastCall.after.records = LastCall.before.records

\* C18: a run in which a step raised leaves every table, so every user's
\* record and set, as it was before the run, and the job returns after
\* printing the error.
FailedRunWritesNothing ==
    [][(/\ calls' # <<>>
        /\ LastCall'.op = "create_post_recommendations"
        /\ LastCall'.result = "error printed")
       => UNCHANGED store]_vars

\* C18 witness: a run failed while a processed user had no record yet, and no
\* record was left behind.
FailedRunWitness ==
    /\ calls # <<>>
    /\ LastCall.op = "create_post_recommendations"
    /\ LastCall.result = "error printed"
    /\ \E u \in JobUsers : RecordsOf(u) = {}
    /\ LastCall.after = LastCall.before

\* C17: right after a successful run, every user who is neither staff nor
\* superuser has a record, and no user who is staff or superuser has one.
AdministratorsSkipped ==
    (/\ calls # <<>>
     /\ LastCall.op = "create_post_recommendations"
     /\ LastCall.result = "done")
    => \A u \in list_users :
          IF u \in staff \/ u \in superusers
          THEN RecordsOf(u) = {}
          ELSE RecordsOf(u) # {}

\* C19: in every reachable state, runs that repeat or overlap included, each
\* user owns at most one PostRecommendation record.
OneRecordPerUser ==
    \A u \in list_users : Cardinality(RecordsOf(u)) <= 1

\* C20: in every state reachable by serial calls of the public operations,
\* delete_user included, each remaining post's likes_count, comments_count and
\* report_count is non-negative and equals the number of PostLike, PostComment
\* and ReportedPost rows that reference the post.
CountersMatchRows ==
    \A p \in DOMAIN posts :
        /\ posts[p].likes_count >= 0
        /\ posts[p].comments_count >= 0
        /\ posts[p].report_count >= 0
        /\ posts[p].likes_count = RowsOfPost(postLikes, p)
        /\ posts[p].comments_count = CommentsOfPost(p)
        /\ posts[p].report_count = RowsOfPost(reportedPosts, p)

\* C21: in every state each comment, like, report, follow and recommendation
\* record references only users and posts that exist; right after
\* delete_user(U) no post, comment, like, report, recommendation record or
\* follow (in either direction) of U remains, and right after a post is
\* deleted no comment, like or report on it remains and no recommendation set
\* holds it.
CascadeComplete ==
    /\ \A c \in DOMAIN comments :
          comments[c].user \in users /\ comments[c].post \in DOMAIN posts
    /\ \A r \in BagToSet(postLikes) \cup BagToSet(reportedPosts) :
          r.user \in users /\ r.post \in DOMAIN posts
    /\ \A r \in BagToSet(userFollows) :
          r.follower \in users /\ r.following \in users
    /\ \A r \in DOMAIN postRecommendations :
          /\ postRecommendations[r].user \in users
          /\ postRecommendations[r].recommend_posts \subseteq DOMAIN posts
    /\ \A p \in DOMAIN posts : posts[p].user \in users
    /\ (calls # <<>> /\ LastCall.op = "delete_user")
       => AccountView(LastCall.user) = [exists |-> FALSE, rows |-> 0]
    /\ (calls # <<>> /\ LastCall.op = "delete_post" /\ LastCall.result = "True")
       => /\ LastCall.target \notin DOMAIN posts
          /\ RowsOfPost(postLikes, LastCall.target) = 0
          /\ RowsOfPost(reportedPosts, LastCall.target) = 0
          /\ CommentsOfPost(LastCall.target) = 0
          /\ \A r \in DOMAIN postRecommendations :
                LastCall.target \notin postRecommendations[r].recommend_posts

\* C21 witness: a user who had at least two rows (posts, comments, likes,
\* reports, follows or recommendation records) was deleted, and none is left.
CascadeWitness ==
    /\ calls # <<>>
    /\ LastCall.op = "delete_user"
    /\ LastCall.before.rows >= 2
    /\ LastCall.after.rows = 0

\* C22: create_post_from_dict by an existing user with a file whose extension
\* is not in the allow-list fails with FileExtensionNotAllowed, writes no row
\* and does not call the storage; with an allowed extension the created
\* post's link is the URL the storage returned for the one save it made (and
\* a File row holds it); with no file the link is empty and the storage is
\* not called.
FileCheckedBeforeWrite ==
    [][(/\ calls' # <<>>
        /\ LastCall'.op = "create_post_from_dict"
        /\ LastCall'.user \in users)
       => LET f == LastCall'.target.file IN
          /\ (f # NoFile /\ f[Len(f)] \notin ALLOWED_FILE_EXTENSIONS)
             => /\ LastCall'.result = "FileExtensionNotAllowedException"
                /\ UNCHANGED <<store, storage>>
          /\ (f # NoFile /\ f[Len(f)] \in ALLOWED_FILE_EXTENSIONS
                /\ LastCall'.after > LastCall'.before)
             => /\ Len(storage') = Len(storage) + 1
                /\ posts'[nextPostId].link = MediaUrl(storage'[Len(storage')])
                /\ files' = files \cup {[uploader |-> LastCall'.user,
                                          url |-> posts'[nextPostId].link]}
          /\ (f = NoFile /\ LastCall'.after > LastCall'.before)
             => /\ posts'[nextPostId].link = None
                /\ UNCHANGED fileVars]_vars

\* C22 witness: a post was refused for its file's extension after a post with
\* an allowed file had been created.
FileCheckedWitness ==
    /\ calls # <<>>
    /\ LastCall.op = "create_post_from_dict"
    /\ LastCall.result = "FileExtensionNotAllowedException"
    /\ \E p \in DOMAIN posts : posts[p].link # None
    /\ storage # <<>>

\* C23: no two users share an email after any step, and create_user_from_dict
\* or update_user_from_dict given an email that some active user has (for
\* update, the caller's own included) fails with UserAlreadyExists and
\* changes nothing.
EmailsUnique ==
    [][/\ \A u \in users', v \in users' : u # v => emails'[u] # emails'[v]
       /\ (/\ calls' # <<>>
           /\ LastCall'.op \in {"create_user_from_dict", "update_user_from_dict"}
           /\ \E u \in users : emails[u] = LastCall'.target)
          => /\ LastCall'.result = "UserAlreadyExistsException"
             /\ UNCHANGED store]_vars

\* C23 witness: a user re-submitted their own address in an update and was
\* refused, while another user exists.
EmailsUniqueWitness ==
    /\ Len(calls) >= 1
    /\ LastCall.op = "update_user_from_dict"
    /\ LastCall.result = "UserAlreadyExistsException"
    /\ emails[LastCall.user] = LastCall.target
    /\ Cardinality(users) >= 2

\* The transaction of a request of kind op by user on target commits in
\* this step, and the request's read had found no row.
UncheckedWrite(op, user, target) ==
    \E c \in InFlight \ DOMAIN requests' :
        /\ requests[c].op = op
        /\ requests[c].user = user
        /\ requests[c].target = target
        /\ ~requests[c].read.existed

\* C24: one like per (post, user), one report per (post, user) and one follow
\* row per ordered pair rest on the check the request reads before it writes:
\* a second row of a pair is only ever written by a request whose check ran
\* before the first row was committed, and such a state, with two rows of a
\* pair in each of the three tables, is reachable.
UniquenessByCheckOnly ==
    [][/\ \A r \in BagToSet(postLikes') :
             CopiesIn(r, postLikes') > 1
             /\ CopiesIn(r, postLikes') > CopiesIn(r, postLikes)
             => UncheckedWrite("like_or_unlike_post", r.user, r.post)
       /\ \A r \in BagToSet(reportedPosts') :
             CopiesIn(r, reportedPosts') > 1
             /\ CopiesIn(r, reportedPosts') > CopiesIn(r, reportedPosts)
             => UncheckedWrite("post_reporting", r.user, r.post)
       /\ \A r \in BagToSet(userFollows') :
             FollowView(r.follower, r.following)'.pending
               + FollowView(r.follower, r.following)'.accepted > 1
             /\ CopiesIn(r, userFollows') > CopiesIn(r, userFollows)
             => UncheckedWrite("follow_or_unfollow_user", r.follower,
                               str(r.following))
      ]_vars

UniquenessWitness ==
    /\ \E r \in BagToSet(postLikes) : CopiesIn(r, postLikes) = 2
    /\ \E r \in BagToSet(reportedPosts) : CopiesIn(r, reportedPosts) = 2
    /\ \E r \in BagToSet(userFollows) : CopiesIn(r, userFollows) = 2
    /\ InFlight = {}

\* C25: when the same like (or report) request is sent twice and both insert
\* their row, the counter is counted twice as well: the commit that writes
\* the second row of the pair raises likes_count (report_count) by one more,
\* so the counter ends two higher and matches the two rows.
DuplicatesCounted ==
    [][/\ \A r \in BagToSet(postLikes') :
             CopiesIn(r, postLikes) >= 1
             /\ CopiesIn(r, postLikes') > CopiesIn(r, postLikes)
             => posts'[r.post].likes_count = posts[r.post].likes_count + 1
       /\ \A r \in BagToSet(reportedPosts') :
             CopiesIn(r, reportedPosts) >= 1
             /\ CopiesIn(r, reportedPosts') > CopiesIn(r, reportedPosts)
             => posts'[r.post].report_count = posts[r.post].report_count + 1
      ]_vars

\* C26: with the transaction of each operation serialized, the
\* read-increment-write of a counter loses nothing: when two different users
\* like (or comment on) one post at the same time and both succeed, the
\* counter has risen by two, that is, every commit that adds a user's first
\* like row or a comment raises the stored counter by one.
NoLostIncrement ==
    [][/\ \A r \in BagToSet(postLikes') :
             CopiesIn(r, postLikes) = 0
             => posts'[r.post].likes_count = posts[r.post].likes_count + 1
       /\ \A k \in DOMAIN comments' \ DOMAIN comments :
             posts'[comments'[k].post].comments_count =
                 posts[comments'[k].post].comments_count + 1
      ]_vars

\* The commit of a request of kind op leaves every column of the post but
\* those in own as the last commit left them.
KeepsOthers(op, own) ==
    \A c \in InFlight \ DOMAIN requests' :
        requests[c].op = op /\ posts' # posts
        => \A f \in DOMAIN posts[requests[c].target] \ own :
               posts'[requests[c].target][f] = posts[requests[c].target][f]

\* C28: every operation that changes a counter changes its own column only:
\* the description and the other counters of the post keep their latest
\* committed values, also when the request overlaps an update, a comment, a
\* like or a report of the same post.
OnlyOwnColumn ==
    [][/\ KeepsOthers("like_or_unlike_post", {"likes_count"})
       /\ KeepsOthers("create_post_comment", {"comments_count"})
       /\ KeepsOthers("post_reporting", {"is_reported", "report_count"})
      ]_vars

\* C27: an operation commits as a whole or aborts as a whole and reports the
\* failure: when a step inside the transaction of delete_comment fails, the
\* comment and comments_count are as before and the caller is told of a
\* failure, not of a successful deletion.
DeleteFailureReported ==
    (/\ calls # <<>>
     /\ LastCall.op = "delete_comment"
     /\ LastCall.result \in {"returned PostNotFoundException",
                             "returned IntegrityError"})
    => /\ LastCall.after = LastCall.before
       /\ DeletePostCommentResponse(LastCall.result) = "error"

\* C29: the moderation path deletes a post only on behalf of a logged-in
\* administrator: a delete-reported-post request of a client that has no
\* session, or is not a superuser, never removes a post.
ModerationNeedsAdministrator ==
    [][(/\ calls' # <<>>
        /\ LastCall'.op = "delete_reported_post"
        /\ DOMAIN posts' # DOMAIN posts)
       => LastCall'.user \in superusers]_vars

\* C30: list_post_recommendation returns a collection, which may be empty,
\* for every authenticated user in every reachable state: for a user created
\* after the last run of the job, for an administrator the job skips, and
\* for a user who asks before the job has ever run.
ListingAlwaysAnswers ==
    (calls # <<>> /\ LastCall.op = "list_post_recommendation")
    => LastCall.result = "listed"

====
